---- MODULE Spec2Model ----
(***************************************************************************)
(* Verification model of the doll-backend API server.                      *)
(*                                                                         *)
(*   SpecGeo : the coordinate transformer tmToWgs84 (routes/favorites.js   *)
(*             and the admin router), a pure function applied to inputs    *)
(*             drawn from a bounded set.                                   *)
(*   Spec    : the review list with its unlock gate: reviews are posted    *)
(*             and listed by any viewer, over any ledger with at most one  *)
(*             unlock row.                                                 *)
(*   SpecUnlock : the unlock ledger: concurrent POST /unlock handlers,     *)
(*             the unlock status and the review list, over a fixed table   *)
(*             of reviews.                                                 *)
(*                                                                         *)
(* Numbers: coordinates given to tmToWgs84 are held in thousandths         *)
(* (metres or degrees * 1000), coordinates it returns in millionths of a   *)
(* degree, so that the bias 0.002747 / 0.00079 is exact.                   *)
(***************************************************************************)
EXTENDS Integers, Sequences, FiniteSets, TLC

VARIABLES
    geoPc,      \* "call" before tmToWgs84 has run on geoIn, "done" after
    geoIn,      \* [x, y]: the two arguments of tmToWgs84, unparsed
    geoOut,     \* [lat, lng]: the value returned (micro-degrees)
    geoPrev,    \* the value returned before, when geoIn is that value passed back
    geoAgain,   \* "no", or how geoIn repeats a call: "same" arguments, "fed" result
    projFails,  \* whether proj4 throws on the projection it is given
    reviews,    \* table Review: sequence of rows in insertion order
    clock,      \* logical time: the next id / createdAt the database hands out
    ledger,     \* table UserUnlockedStoreReview: sequence of rows in insertion order
    unlockReq,  \* POST /unlock/:storeId handlers in flight, one per connection
    listReq,    \* GET /store/:storeId handler in flight
    putReq,     \* PUT /:id handler in flight, between its two awaits
    delReq,     \* DELETE /:id handler in flight, between its two awaits
    resp,       \* the HTTP response sent by the step just taken (NoResp if none)
    reports,    \* table StoreReport: sequence of rows in insertion order
    reportReq,  \* store-report handlers in flight: [post, put, del, patch]
    payments,   \* table Payment: sequence of rows
    payReq,     \* POST /execute handlers in flight, one per connection
    tossCalls,  \* calls of the Toss execute API made so far
    favorites,  \* table Favorite: sequence of rows in insertion order
    favReq,     \* POST /api/favorites/:storeId handlers in flight, one per connection
    alerts,     \* table OpenAlert: sequence of rows in insertion order
    alertReq,   \* POST /api/open-alerts handlers in flight, one per connection
    cronSecret, \* process.env.CRON_SECRET: a string, or unset
    cronRuns,   \* calls of triggerDailyReport made so far
    cronReq     \* GET /api/scheduler/cron/daily-report: the request being handled

geoVars    == <<geoPc, geoIn, geoOut, geoPrev, geoAgain, projFails>>
reviewVars == <<reviews, clock, ledger, unlockReq, listReq, resp>>
editVars   == <<putReq, delReq>>
reportVars == <<reports, reportReq>>
payVars    == <<payments, payReq, tossCalls>>
favVars    == <<favorites, favReq>>
alertVars  == <<alerts, alertReq>>
cronVars   == <<cronSecret, cronRuns, cronReq>>
apiVars    == <<reportVars, payVars, favVars, alertVars, cronVars>>
vars       == <<geoVars, reviewVars, editVars, apiVars>>

(***************************************************************************)
(* Bounds of the model.                                                    *)
(***************************************************************************)
NumUsers   == 2     \* registered users 1..NumUsers
NumStores  == 1     \* GameBusiness rows 1..NumStores; NumStores+1 is a missing id
MaxReviews == 3     \* rows the Review table may hold
NumConns   == 2     \* concurrent POST /unlock handlers
MaxReports == 2     \* rows the StoreReport table may hold
MaxPayments == 2    \* rows of the Payment table
MaxCronRuns  == 3   \* calls of triggerDailyReport in one behaviour
MaxTossCalls == 3   \* calls of the Toss execute API in one behaviour

(***************************************************************************)
(*                        tmToWgs84 (coordinate transformer)               *)
(***************************************************************************)
Milli(n) == n * 1000
Micro(n) == n * 1000000

\* Constants of tmToWgs84, in the units of the source (degrees, metres).
WgsLngMin  == 100
WgsLngMax  == 140
WgsLatMin  == 30
WgsLatMax  == 45
TmXMin     == 50000
TmXMax     == 350000
TmYMin     == 0
TmYMax     == 700000
ClampLatMin == 33
ClampLatMax == 43
ClampLngMin == 124
ClampLngMax == 132
\* 37.5665, 126.978, 0.002747 and 0.00079 in micro-degrees.
DefaultLat == 37566500
DefaultLng == 126978000
BiasLat    == 2747
BiasLng    == 790

DefaultCoord == [lat |-> DefaultLat, lng |-> DefaultLng]

\* A JavaScript number after parseFloat: finite or not. A finite number is
\* v thousandths plus u millionths (0 <= u < 1000), so a returned coordinate
\* can be passed back in.
NumU(v, u) == [kind |-> "num", v |-> v, u |-> u]
Num(v)   == NumU(v, 0)
NaNVal   == [kind |-> "nan", v |-> 0, u |-> 0]
PosInf   == [kind |-> "inf", v |-> 1, u |-> 0]
NegInf   == [kind |-> "inf", v |-> -1, u |-> 0]
\* An argument may also be a string that is no number.
TextArg  == [kind |-> "text", v |-> 0, u |-> 0]

\* parseFloat: a number parses to itself, a non-numeric string to NaN.
ParseFloat(a) == IF a.kind = "text" THEN NaNVal ELSE a

IsFinite(n) == n.kind = "num"
IsNaN(n)    == n.kind = "nan"

\* n >= k, n <= k, n < k, n > k for a finite n and a whole number k.
Geq(n, k) == n.v >= Milli(k)
Leq(n, k) == n.v < Milli(k) \/ (n.v = Milli(k) /\ n.u = 0)
Lt(n, k)  == ~Geq(n, k)
Gt(n, k)  == ~Leq(n, k)

\* The number in micro-units, and back.
ToMicro(n)   == n.v * 1000 + n.u
FromMicro(m) == NumU(m \div 1000, m % 1000)

Max(a, b) == IF a >= b THEN a ELSE b
Min(a, b) == IF a <= b THEN a ELSE b

\* proj4(epsg5174, wgs84, [tmX, tmY]): the inverse transverse Mercator of
\* +lat_0=38 +lon_0=127 +x_0=200000 +y_0=500000, to first order (about 9
\* micro-degrees of latitude and 11 of longitude per metre at 38N).
\* Arguments in millimetres, result in micro-degrees.
Proj4(tmX, tmY) ==
    [lng |-> Micro(127) + ((tmX - Milli(200000)) \div 1000) * 11,
     lat |-> Micro(38)  + ((tmY - Milli(500000)) \div 1000) * 9]

\* Variants: no bias correction; the bias added twice.
Corrected_NoBias(p) ==
    [lat |-> Max(Micro(ClampLatMin), Min(Micro(ClampLatMax), p.lat)),
     lng |-> Max(Micro(ClampLngMin), Min(Micro(ClampLngMax), p.lng))]

\* The projected branch: bias correction, then the clamp.
Corrected(p) ==
    [lat |-> Max(Micro(ClampLatMin), Min(Micro(ClampLatMax), p.lat + BiasLat)),
     lng |-> Max(Micro(ClampLngMin), Min(Micro(ClampLngMax), p.lng + BiasLng))]

\* What a call that lets the exception escape would leave the caller with.
Raised == [error |-> "thrown"]

\* Variant: the exception is thrown on to the caller.
CatchDefault_Rethrow == Raised

\* catch (error) { return default }
CatchDefault == DefaultCoord

\* Variant: the NaN / Infinity check lets everything through.
Unusable_Never(tmX, tmY) == FALSE

\* !isFinite(tmX) || !isFinite(tmY) || isNaN(tmX) || isNaN(tmY)
Unusable(tmX, tmY) ==
    ~IsFinite(tmX) \/ ~IsFinite(tmY) \/ IsNaN(tmX) \/ IsNaN(tmY)

\* tmX >= 100 && tmX <= 140 && tmY >= 30 && tmY <= 45
AlreadyWgs84(tmX, tmY) ==
    /\ Geq(tmX, WgsLngMin) /\ Leq(tmX, WgsLngMax)
    /\ Geq(tmY, WgsLatMin) /\ Leq(tmY, WgsLatMax)

\* Variants: the already-geographic value is clamped like a projected one;
\* it gets the bias correction.
PassThrough_Clamped(tmX, tmY) ==
    Corrected_NoBias([lat |-> ToMicro(tmY), lng |-> ToMicro(tmX)])

PassThrough_Biased(tmX, tmY) ==
    [lat |-> ToMicro(tmY) + BiasLat, lng |-> ToMicro(tmX) + BiasLng]

\* return { lat: tmY, lng: tmX }
PassThrough(tmX, tmY) == [lat |-> ToMicro(tmY), lng |-> ToMicro(tmX)]

\* Variant: the range check has no lower bound on y.
OutOfRange_NoLowerY(tmX, tmY) ==
    Lt(tmX, TmXMin) \/ Gt(tmX, TmXMax) \/ Gt(tmY, TmYMax)

\* tmX < 50000 || tmX > 350000 || tmY < 0 || tmY > 700000
OutOfRange(tmX, tmY) ==
    \/ Lt(tmX, TmXMin) \/ Gt(tmX, TmXMax)
    \/ Lt(tmY, TmYMin) \/ Gt(tmY, TmYMax)

\* tmToWgs84: the whole body runs inside try; the only call in it that can
\* throw is proj4 (projFails: the library rejects the projection).
tmToWgs84(x, y) ==
    LET tmX == ParseFloat(x)
        tmY == ParseFloat(y)
    IN  IF Unusable(tmX, tmY) THEN DefaultCoord
        ELSE IF AlreadyWgs84(tmX, tmY) THEN PassThrough(tmX, tmY)
        ELSE IF OutOfRange(tmX, tmY) THEN DefaultCoord
        ELSE IF projFails THEN CatchDefault
        ELSE Corrected(Proj4(tmX.v, tmY.v))

\* Arguments tried: around every threshold of the function, and non-numbers.
GeoXs == { Num(v) : v \in { -1000, 1000, 99999, 100000, 127000, 140000, 140001,
                            49999999, 50000000, 198000000, 350000000, 350000001 } }
            \cup { NumU(140000, 1), NaNVal, PosInf, NegInf, TextArg }
GeoYs == { Num(v) : v \in { -1, 0, 1000, 29999, 30000, 32999, 33000, 37500, 43000,
                            43001, 45000, 45001, 450000000, 700000000, 700000001 } }
            \cup { NumU(45000, 1), NaNVal, PosInf, NegInf, TextArg }

NoCoord == [lat |-> 0, lng |-> 0]

\* One call of tmToWgs84 on the pending arguments.
CallTmToWgs84 ==
    /\ geoPc = "call"
    /\ geoOut' = tmToWgs84(geoIn.x, geoIn.y)
    /\ geoPc' = "done"
    /\ UNCHANGED <<geoIn, geoPrev, geoAgain, projFails, reviewVars, editVars, apiVars>>

\* The caller passes the next store's coordinates.
NextCoordinates ==
    /\ geoPc = "done"
    /\ \E x \in GeoXs, y \in GeoYs : geoIn' = [x |-> x, y |-> y]
    /\ geoPc' = "call"
    /\ geoOut' = NoCoord
    /\ geoPrev' = NoCoord
    /\ geoAgain' = "no"
    /\ UNCHANGED <<projFails, reviewVars, editVars, apiVars>>

\* The caller passes a returned coordinate back in: x = lng, y = lat.
\* The caller repeats the call with the same arguments.
Repeat ==
    /\ geoPc = "done"
    /\ geoAgain = "no"
    /\ geoPrev' = geoOut
    /\ geoAgain' = "same"
    /\ geoOut' = NoCoord
    /\ geoPc' = "call"
    /\ UNCHANGED <<geoIn, projFails, reviewVars, editVars, apiVars>>

Reapply ==
    /\ geoPc = "done"
    /\ geoAgain = "no"
    /\ DOMAIN geoOut = {"lat", "lng"}
    /\ geoIn' = [x |-> FromMicro(geoOut.lng), y |-> FromMicro(geoOut.lat)]
    /\ geoPrev' = geoOut
    /\ geoAgain' = "fed"
    /\ geoOut' = NoCoord
    /\ geoPc' = "call"
    /\ UNCHANGED <<projFails, reviewVars, editVars, apiVars>>

GeoIdle ==
    /\ geoPc = "idle"
    /\ geoIn = [x |-> NaNVal, y |-> NaNVal]
    /\ geoOut = NoCoord
    /\ geoPrev = NoCoord
    /\ geoAgain = "no"
    /\ projFails = FALSE

GeoStart ==
    /\ geoPc = "call"
    /\ geoIn \in [x : GeoXs, y : GeoYs]
    /\ geoOut = NoCoord
    /\ geoPrev = NoCoord
    /\ geoAgain = "no"
    /\ projFails \in BOOLEAN

NextGeo == CallTmToWgs84 \/ NextCoordinates \/ Repeat \/ Reapply

(***************************************************************************)
(*                 Review API: list, unlock gate, unlock ledger            *)
(***************************************************************************)
\* req.user is undefined for a request without a valid token; a review
\* written by an anonymous submitter has userId null.
NoUser   == 0
Users    == 1..NumUsers
Viewers  == {NoUser} \cup Users
Stores   == 1..NumStores          \* ids for which a GameBusiness row exists
StoreIds == 1..(NumStores + 1)    \* ids a request may name

\* req.query defaults of GET /store/:storeId.
DefaultLimit  == 20
RatingMin == 1
RatingMax == 5

\* The text that replaces the content of a blinded review.
BlindText == "blind-placeholder"

\* User rows: nickname and avatar of a registered user.
Nickname(u) == <<"nickname", u>>
Avatar(u)   == <<"avatar", u>>
Undefined   == <<"undefined">>
Null        == <<"null">>

\* ---- JavaScript values of req.body.rating ----
\* A JSON number or a JSON string, kept as the characters that spell it.
JsNumber(text) == [type |-> "number", text |-> text]
JsString(text) == [type |-> "string", text |-> text]

DigitChars == <<"0", "1", "2", "3", "4", "5", "6", "7", "8", "9">>
IsDigit(c) == \E i \in DOMAIN DigitChars : DigitChars[i] = c
DigitValue(c) == (CHOOSE i \in DOMAIN DigitChars : DigitChars[i] = c) - 1

\* The number of leading digits of a character sequence.
RECURSIVE DigitsPrefixLen(_)
DigitsPrefixLen(t) ==
    IF t = <<>> \/ ~IsDigit(Head(t)) THEN 0 ELSE 1 + DigitsPrefixLen(Tail(t))

\* The value of a sequence of digits.
RECURSIVE DigitsValue(_)
DigitsValue(t) ==
    IF t = <<>> THEN 0
    ELSE DigitsValue(SubSeq(t, 1, Len(t) - 1)) * 10 + DigitValue(t[Len(t)])

Drop(t, n) == SubSeq(t, n + 1, Len(t))
Signed(t)  == t # <<>> /\ Head(t) \in {"-", "+"}
Unsign(t)  == IF Signed(t) THEN Tail(t) ELSE t
SignOf(t)  == IF t # <<>> /\ Head(t) = "-" THEN -1 ELSE 1

RECURSIVE Pow10(_)
Pow10(n) == IF n = 0 THEN 1 ELSE 10 * Pow10(n - 1)

\* A number m * 10^e, or NaN.
Decimal(m, e) == [kind |-> "dec", m |-> m, e |-> e]
NotANumber    == [kind |-> "nan", m |-> 0, e |-> 0]

\* ToNumber of a value, as the relational operators apply it: the whole text
\* must spell [sign] digits [. digits] [e [sign] digits]; the empty string is
\* 0; anything else is NaN.
ToNumber(val) ==
    LET body  == Unsign(val.text)
        nInt  == DigitsPrefixLen(body)
        rest1 == Drop(body, nInt)
        dot   == rest1 # <<>> /\ Head(rest1) = "."
        nFrac == IF dot THEN DigitsPrefixLen(Tail(rest1)) ELSE 0
        rest2 == IF dot THEN Drop(Tail(rest1), nFrac) ELSE rest1
        hasE  == rest2 # <<>> /\ Head(rest2) \in {"e", "E"}
        expT  == IF hasE THEN Tail(rest2) ELSE <<>>
        expD  == Unsign(expT)
        digs  == SubSeq(body, 1, nInt) \o (IF dot THEN SubSeq(Tail(rest1), 1, nFrac) ELSE <<>>)
    IN  IF val.text = <<>> THEN Decimal(0, 0)
        ELSE IF nInt + nFrac = 0 THEN NotANumber
        ELSE IF rest2 = <<>> THEN Decimal(SignOf(val.text) * DigitsValue(digs), -nFrac)
        ELSE IF hasE /\ expD # <<>> /\ DigitsPrefixLen(expD) = Len(expD)
        THEN Decimal(SignOf(val.text) * DigitsValue(digs),
                     SignOf(expT) * DigitsValue(expD) - nFrac)
        ELSE NotANumber

\* val < k and val > k for a whole number k; false when val is NaN.
LessThan(val, k) ==
    LET n == ToNumber(val)
    IN  /\ n.kind = "dec"
        /\ IF n.e >= 0 THEN n.m * Pow10(n.e) < k ELSE n.m < k * Pow10(-n.e)
GreaterThan(val, k) ==
    LET n == ToNumber(val)
    IN  /\ n.kind = "dec"
        /\ IF n.e >= 0 THEN n.m * Pow10(n.e) > k ELSE n.m > k * Pow10(-n.e)

\* !val: the number 0 and the empty string are falsy.
Falsy(val) ==
    IF val.type = "number" THEN ToNumber(val).m = 0 ELSE val.text = <<>>

\* parseInt(val): the sign and the leading digits of the text, NaN when
\* there is no leading digit.
NaNInt == [kind |-> "nan", v |-> 0]
ParseInt(val) ==
    LET body == Unsign(val.text)
        n    == DigitsPrefixLen(body)
    IN  IF n = 0 THEN NaNInt
        ELSE [kind |-> "int", v |-> SignOf(val.text) * DigitsValue(SubSeq(body, 1, n))]

\* Ratings tried by the model: the JSON numbers 0, 1, 5, 6, and strings.
RatingInputs  == { JsNumber(<<c>>) : c \in {"0", "1", "5", "6"} }
RatingStrings == { JsString(<<"1", "0", "e", "-", "1">>),
                   JsString(<<"0", ".", "5", "e", "1">>) }

\* Request bodies of POST /v2 tried by the model.
Body == [content |-> "fun claw machines", images |-> <<"review.jpg">>,
         tags |-> <<"clean">>, dollImages |-> <<"doll.jpg">>, dollCount |-> 2,
         spentAmount |-> 5000, userName |-> <<"guest">>]

NoResp == [kind |-> "none", status |-> 0, viewer |-> NoUser, storeId |-> 0, id |-> 0,
           isUnlocked |-> FALSE, existed |-> FALSE, data |-> <<>>, pageIds |-> <<>>,
           offset |-> 0, sortBy |-> "latest"]

Response(kind, status, viewer, storeId) ==
    [NoResp EXCEPT !.kind = kind, !.status = status, !.viewer = viewer,
                   !.storeId = storeId]

\* prisma.gameBusiness.findUnique({ where: { id } }) found a row.
StoreExists(s) == s \in Stores

\* prisma.userUnlockedStoreReview.findUnique on the compound key
\* unique_user_store_review_unlock: the row for (userId, storeId), if any.
UnlockRows(l, u, s) == { i \in DOMAIN l : l[i].userId = u /\ l[i].storeId = s }
HasUnlock(l, u, s)  == UnlockRows(l, u, s) # {}

\* Variant: the table has no unique index on (userId, storeId).
UniqueConflict_NoIndex(l, u, s) == FALSE

\* The unique index behind unique_user_store_review_unlock: an insert of a
\* second row for the same (userId, storeId) is refused by the database.
UniqueConflict(l, u, s) == \E i \in DOMAIN l : l[i].userId = u /\ l[i].storeId = s

\* Variant: the write unlocks the store for every user.
LedgerInsert_EveryUser(l, u, s) ==
    l \o [i \in 1..NumUsers |-> [userId |-> i, storeId |-> s]]

\* Variant: the write replaces the table's rows instead of adding one.
LedgerInsert_Replace(l, u, s) == <<[userId |-> u, storeId |-> s]>>

\* prisma.userUnlockedStoreReview.create({ data: { userId, storeId } }); the
\* row's unlockedAt is its place in the insertion order.
LedgerInsert(l, u, s) == Append(l, [userId |-> u, storeId |-> s])

IdleUnlock == [pc |-> "idle", userId |-> NoUser, storeId |-> 0]
IdleList   == [pc |-> "idle", viewer |-> NoUser, storeId |-> 0, isUnlocked |-> FALSE]
Conns      == 1..NumConns

IdlePut    == [pc |-> "idle", viewer |-> NoUser, id |-> 0,
               data |-> [rating |-> [kind |-> "undefined", v |-> 0], fields |-> {}]]
IdleDelete == [pc |-> "idle", viewer |-> NoUser, id |-> 0]

\* Handler slots of the other routers: idle, or between two awaits.
IdlePay   == [pc |-> "idle", userKey |-> NoUser, payToken |-> 0, id |-> 0]
\* favorited is not handler state: it records whether the pair was a favorite
\* when the request arrived.
IdleFav   == [pc |-> "idle", userId |-> NoUser, storeId |-> 0, favorited |-> FALSE]
IdleAlert == [pc |-> "idle", userId |-> NoUser,
              body |-> [storeName |-> <<>>, name |-> <<>>, phone |-> <<>>]]
Unset     == <<"unset">>
IdleCron  == [pc |-> "idle", authorization |-> Undefined]

PaymentsIdle  == payments = <<>> /\ tossCalls = 0
FavoritesIdle == favorites = <<>>
AlertsIdle    == alerts = <<>>
CronIdle      == cronSecret = Unset /\ cronRuns = 0 /\ cronReq = IdleCron

\* No row in the tables behind the other routers.
ApiIdle ==
    /\ reports = <<>>
    /\ PaymentsIdle /\ FavoritesIdle /\ AlertsIdle /\ CronIdle

\* A store-report handler slot: idle, or between its two awaits.
IdleReport  == [pc |-> "idle", userId |-> NoUser, id |-> 0,
                storeName |-> <<>>, address |-> <<>>, status |-> "none"]
IdleReports == [post |-> [c \in Conns |-> IdleReport], put |-> IdleReport,
                del |-> IdleReport, patch |-> IdleReport]

\* No handler in flight, nothing answered yet.
Quiet ==
    /\ unlockReq = [c \in Conns |-> IdleUnlock]
    /\ listReq = IdleList
    /\ putReq = IdlePut
    /\ delReq = IdleDelete
    /\ reportReq = IdleReports
    /\ payReq = [c \in Conns |-> IdlePay]
    /\ favReq = [c \in Conns |-> IdleFav]
    /\ alertReq = [c \in Conns |-> IdleAlert]
    /\ resp = NoResp

\* Ledgers the unlock endpoint can have produced: empty, or one row.
SmallLedgers ==
    {<<>>} \cup { LedgerInsert(<<>>, u, s) : u \in Users, s \in Stores }

----------------------------------------------------------------------------
\* POST /api/reviews/v2 (optionalAuth): validation, store lookup, insert.
NewReview(id, viewer, storeId, rating) ==
    [id |-> id, storeId |-> storeId, rating |-> rating,
     content |-> Body.content, images |-> Body.images, tags |-> Body.tags,
     dollCount |-> Body.dollCount, spentAmount |-> Body.spentAmount,
     dollImages |-> Body.dollImages,
     userId |-> viewer,
     userName |-> IF viewer # NoUser THEN Null ELSE Body.userName,
     createdAt |-> id, updatedAt |-> id]

PostReviewV2(viewer, storeId, rating) ==
    /\ clock <= MaxReviews
    /\ IF Falsy(rating) \/ LessThan(rating, RatingMin) \/ GreaterThan(rating, RatingMax)
       THEN /\ resp' = Response("create", 400, viewer, storeId)
            /\ UNCHANGED <<reviews, clock>>
       ELSE IF ~StoreExists(storeId)
       THEN /\ resp' = Response("create", 404, viewer, storeId)
            /\ UNCHANGED <<reviews, clock>>
       ELSE IF ParseInt(rating).kind = "nan"
       THEN /\ resp' = Response("create", 500, viewer, storeId)
            /\ UNCHANGED <<reviews, clock>>
       ELSE /\ reviews' = Append(reviews, NewReview(clock, viewer, storeId, ParseInt(rating).v))
            /\ clock' = clock + 1
            /\ resp' = Response("create", 201, viewer, storeId)
    /\ UNCHANGED <<ledger, unlockReq, listReq, geoVars, editVars, apiVars>>

----------------------------------------------------------------------------
\* GET /api/reviews/store/:storeId (optionalAuth).

\* Variant: the lookup is keyed by the store alone.
ResolveUnlocked_AnyUser(l, viewer, storeId) ==
    \E i \in DOMAIN l : l[i].storeId = storeId

\* First await: the unlock lookup, made only when req.user is set.
ResolveUnlocked(l, viewer, storeId) ==
    IF viewer # NoUser THEN HasUnlock(l, viewer, storeId) ELSE FALSE

ListFindUnlock(viewer, storeId) ==
    /\ listReq.pc = "idle"
    /\ listReq' = [pc |-> "findMany", viewer |-> viewer, storeId |-> storeId,
                   isUnlocked |-> ResolveUnlocked(ledger, viewer, storeId)]
    /\ resp' = NoResp
    /\ UNCHANGED <<reviews, clock, ledger, unlockReq, geoVars, editVars, apiVars>>

SortBys == {"latest", "rating_high", "rating_low"}
Limits  == {1, DefaultLimit}
Offsets == 0..(MaxReviews - 1)

\* orderBy: createdAt desc by default, rating desc / asc on request.
InOrder(sortBy, a, b) ==
    IF sortBy = "rating_high" THEN a.rating >= b.rating
    ELSE IF sortBy = "rating_low" THEN a.rating <= b.rating
    ELSE a.createdAt >= b.createdAt

StoreReviews(s) == SelectSeq(reviews, LAMBDA r : r.storeId = s)

\* The orders the database may return the store's rows in: every arrangement
\* that respects orderBy (rows equal in the sort key come in any order).
Orderings(rows, sortBy) ==
    LET n == Len(rows)
        perms == { f \in [1..n -> 1..n] : \A i, j \in 1..n : f[i] = f[j] => i = j }
    IN  { [i \in 1..n |-> rows[f[i]]] : f \in
            { g \in perms : \A i, j \in 1..n :
                               i < j => InOrder(sortBy, rows[g[i]], rows[g[j]]) } }

\* skip: offset, take: limit.
SkipTake(rows, offset, limit) ==
    SubSeq(rows, offset + 1, Min(Len(rows), offset + limit))

\* isOwner: req.user && review.userId === req.user.id. With req.user
\* undefined the && yields undefined, not false.
IsOwner(viewer, review) ==
    IF viewer = NoUser THEN "undefined"
    ELSE IF review.userId = viewer THEN "true" ELSE "false"

BaseReview(review, viewer) ==
    [id |-> review.id,
     rating |-> review.rating,
     content |-> review.content,
     images |-> review.images,
     tags |-> review.tags,
     dollCount |-> review.dollCount,
     spentAmount |-> review.spentAmount,
     dollImages |-> review.dollImages,
     userName |-> IF review.userId # NoUser THEN Nickname(review.userId)
                  ELSE review.userName,
     userAvatar |-> IF review.userId # NoUser THEN Avatar(review.userId)
                    ELSE Undefined,
     isOwner |-> IsOwner(viewer, review),
     createdAt |-> review.createdAt,
     updatedAt |-> review.updatedAt,
     isBlinded |-> FALSE]

\* Variant: the blinded projection also hides the rating and the author.
Blinded_HidesRating(base) ==
    [base EXCEPT !.content = BlindText, !.images = <<>>, !.tags = <<>>,
                 !.dollImages = <<>>, !.isBlinded = TRUE,
                 !.rating = 0, !.userName = Undefined]

\* { ...baseReview, content: placeholder, images: [], tags: [], dollImages: [],
\*   isBlinded: true }
Blinded(base) ==
    [base EXCEPT !.content = BlindText, !.images = <<>>, !.tags = <<>>,
                 !.dollImages = <<>>, !.isBlinded = TRUE]

\* Variants: the first two rows are exempt; the unlock is not consulted.
MustBlind_OffByOne(isUnlocked, index) == ~isUnlocked /\ index > 1
MustBlind_IgnoresUnlock(isUnlocked, index) == index > 0

\* The blind rule: not unlocked and not the first row of the page.
MustBlind(isUnlocked, index) == ~isUnlocked /\ index > 0

\* Variant: the viewer's own reviews are exempt from blinding.
FormattedReviews_OwnExempt(page, viewer, isUnlocked) ==
    [i \in 1..Len(page) |->
        IF MustBlind(isUnlocked, i - 1) /\ ~(viewer # NoUser /\ page[i].userId = viewer)
        THEN Blinded(BaseReview(page[i], viewer))
        ELSE BaseReview(page[i], viewer)]

\* Variant: the reviews that must be blinded are left out of the list.
FormattedReviews_DropsBlinded(page, viewer, isUnlocked) ==
    [i \in 1..(IF isUnlocked THEN Len(page) ELSE Min(Len(page), 1)) |->
        BaseReview(page[i], viewer)]

\* reviews.map((review, index) => ...)
FormattedReviews(page, viewer, isUnlocked) ==
    [i \in 1..Len(page) |->
        IF MustBlind(isUnlocked, i - 1)
        THEN Blinded(BaseReview(page[i], viewer))
        ELSE BaseReview(page[i], viewer)]

\* Second await on: findMany with orderBy / skip / take, the map, res.json.
ListFindMany(sortBy, limit, offset) ==
    /\ listReq.pc = "findMany"
    /\ \E rows \in Orderings(StoreReviews(listReq.storeId), sortBy) :
         LET page == SkipTake(rows, offset, limit)
         IN  resp' = [Response("list", 200, listReq.viewer, listReq.storeId)
                        EXCEPT !.isUnlocked = listReq.isUnlocked,
                               !.data = FormattedReviews(page, listReq.viewer,
                                                         listReq.isUnlocked),
                               !.pageIds = [i \in 1..Len(page) |-> page[i].id],
                               !.offset = offset,
                               !.sortBy = sortBy]
    /\ listReq' = IdleList
    /\ UNCHANGED <<reviews, clock, ledger, unlockReq, geoVars, editVars, apiVars>>

----------------------------------------------------------------------------
\* GET /api/reviews/unlock-status/:storeId (authenticateToken).
GetUnlockStatus(userId, storeId) ==
    /\ resp' = [Response("status", 200, userId, storeId)
                  EXCEPT !.isUnlocked = HasUnlock(ledger, userId, storeId)]
    /\ UNCHANGED <<reviews, clock, ledger, unlockReq, listReq, geoVars, editVars, apiVars>>

----------------------------------------------------------------------------
\* POST /api/reviews/unlock/:storeId (authenticateToken), await by await.

\* The request arrives and the store is looked up.
UnlockFindStore(c, userId, storeId) ==
    /\ unlockReq[c].pc = "idle"
    /\ IF ~StoreExists(storeId)
       THEN /\ resp' = Response("unlock", 404, userId, storeId)
            /\ UNCHANGED unlockReq
       ELSE /\ unlockReq' = [unlockReq EXCEPT ![c] =
                [pc |-> "findExisting", userId |-> userId, storeId |-> storeId]]
            /\ resp' = NoResp
    /\ UNCHANGED <<reviews, clock, ledger, listReq, geoVars, editVars, apiVars>>

\* existingUnlock: answered at once when the row is already there.
UnlockFindExisting(c) ==
    LET r == unlockReq[c]
    IN  /\ r.pc = "findExisting"
        /\ IF HasUnlock(ledger, r.userId, r.storeId)
           THEN /\ resp' = [Response("unlock", 200, r.userId, r.storeId)
                              EXCEPT !.isUnlocked = TRUE, !.existed = TRUE]
                /\ unlockReq' = [unlockReq EXCEPT ![c] = IdleUnlock]
           ELSE /\ resp' = NoResp
                /\ unlockReq' = [unlockReq EXCEPT ![c].pc = "create"]
        /\ UNCHANGED <<reviews, clock, ledger, listReq, geoVars, editVars, apiVars>>

\* create: the insert, or the exception it throws, which the handler's catch
\* answers with 500.
UnlockCreate(c) ==
    LET r == unlockReq[c]
    IN  /\ r.pc = "create"
        /\ IF UniqueConflict(ledger, r.userId, r.storeId)
           THEN /\ resp' = [Response("unlock", 500, r.userId, r.storeId)
                              EXCEPT !.existed = TRUE]
                /\ UNCHANGED ledger
           ELSE /\ ledger' = LedgerInsert(ledger, r.userId, r.storeId)
                /\ resp' = [Response("unlock", 200, r.userId, r.storeId)
                              EXCEPT !.isUnlocked = TRUE]
        /\ unlockReq' = [unlockReq EXCEPT ![c] = IdleUnlock]
        /\ UNCHANGED <<reviews, clock, listReq, geoVars, editVars, apiVars>>

-----------------------------------------------------------------------------
\* POST /api/reviews (optionalAuth): validation, store lookup, insert.

\* The name stored for an anonymous submitter who gives none.
Anonymous == <<"anonymous">>
UserNames == {Undefined, Body.userName}

\* Columns POST / does not set take the schema's default.
ColumnDefault == <<"column default">>

\* Variant: the submitted name is stored for signed-in authors too.
AuthorName_Always(viewer, userName) ==
    IF userName = Undefined THEN Anonymous ELSE userName

\* if (req.user) userId = req.user.id; else userName = userName || (anonymous)
AuthorName(viewer, userName) ==
    IF viewer # NoUser THEN Null
    ELSE IF userName = Undefined THEN Anonymous ELSE userName

PostReview(viewer, storeId, rating, userName) ==
    /\ clock <= MaxReviews
    /\ IF Falsy(rating) \/ LessThan(rating, RatingMin) \/ GreaterThan(rating, RatingMax)
       THEN /\ resp' = Response("create", 400, viewer, storeId)
            /\ UNCHANGED <<reviews, clock>>
       ELSE IF ~StoreExists(storeId)
       THEN /\ resp' = Response("create", 404, viewer, storeId)
            /\ UNCHANGED <<reviews, clock>>
       ELSE IF ParseInt(rating).kind = "nan"
       THEN /\ resp' = Response("create", 500, viewer, storeId)
            /\ UNCHANGED <<reviews, clock>>
       ELSE /\ reviews' = Append(reviews,
                [NewReview(clock, viewer, storeId, ParseInt(rating).v)
                    EXCEPT !.userName = AuthorName(viewer, userName),
                           !.dollCount = ColumnDefault,
                           !.spentAmount = ColumnDefault,
                           !.dollImages = ColumnDefault])
            /\ clock' = clock + 1
            /\ resp' = [Response("create", 201, viewer, storeId) EXCEPT !.id = clock]
    /\ UNCHANGED <<ledger, unlockReq, listReq, geoVars, editVars, apiVars>>

-----------------------------------------------------------------------------
\* PUT /api/reviews/:id and DELETE /api/reviews/:id (authenticateToken).

ReviewIds == 1..MaxReviews
HasReview(id) == \E i \in DOMAIN reviews : reviews[i].id = id
ReviewAt(id)  == reviews[CHOOSE i \in DOMAIN reviews : reviews[i].id = id]

\* Request bodies of PUT /:id tried by the model.
\* rating is absent or one of EditRatings; fields names the keys among
\* content, images, tags that the body has, with the values of Edited.
Edited == [content |-> "edited", images |-> <<"edited.jpg">>, tags |-> <<"edited">>]
JsUndefined == [type |-> "undefined", text |-> <<>>]
EditRatings == {JsUndefined, JsNumber(<<"0">>), JsNumber(<<"4">>),
                JsString(<<"1", "0", "e", "-", "1">>)}
EditFields == {{}, {"content"}, {"content", "images", "tags"}}
EditBodies == [rating : EditRatings, fields : EditFields]

\* Variant: any signed-in user passes the ownership check.
NotOwner_NeverRefuses(review, viewer) == FALSE

\* review.userId !== req.user.id
NotOwner(review, viewer) == review.userId # viewer

\* updateData: the fields of the body that are not undefined.
NoRating == [kind |-> "undefined", v |-> 0]
UpdateData(body) ==
    [rating |-> IF body.rating = JsUndefined THEN NoRating ELSE ParseInt(body.rating),
     fields |-> body.fields]

\* prisma.review.update({ where: { id }, data })
Updated(row, data) ==
    [row EXCEPT !.rating  = IF data.rating = NoRating THEN @ ELSE data.rating.v,
                !.content = IF "content" \in data.fields THEN Edited.content ELSE @,
                !.images  = IF "images" \in data.fields THEN Edited.images ELSE @,
                !.tags    = IF "tags" \in data.fields THEN Edited.tags ELSE @]

EditResponse(kind, status, viewer, id) ==
    [Response(kind, status, viewer, 0) EXCEPT !.id = id]

\* PUT: findUnique, the ownership check and the validation of the body.
PutFind(viewer, id, body) ==
    /\ putReq.pc = "idle"
    /\ IF ~HasReview(id)
       THEN resp' = EditResponse("edit", 404, viewer, id) /\ UNCHANGED putReq
       ELSE IF NotOwner(ReviewAt(id), viewer)
       THEN resp' = EditResponse("edit", 403, viewer, id) /\ UNCHANGED putReq
       ELSE IF /\ body.rating # JsUndefined
               /\ LessThan(body.rating, RatingMin) \/ GreaterThan(body.rating, RatingMax)
       THEN resp' = EditResponse("edit", 400, viewer, id) /\ UNCHANGED putReq
       ELSE /\ putReq' = [pc |-> "update", viewer |-> viewer, id |-> id,
                          data |-> UpdateData(body)]
            /\ resp' = NoResp
    /\ UNCHANGED <<reviews, clock, ledger, unlockReq, listReq, delReq, geoVars, apiVars>>

\* PUT: the update; it throws when the row is gone or the rating is NaN.
PutUpdate ==
    /\ putReq.pc = "update"
    /\ IF ~HasReview(putReq.id)
          \/ putReq.data.rating.kind = "nan"
       THEN /\ resp' = EditResponse("edit", 500, putReq.viewer, putReq.id)
            /\ UNCHANGED reviews
       ELSE /\ reviews' = [i \in DOMAIN reviews |->
                            IF reviews[i].id = putReq.id
                            THEN Updated(reviews[i], putReq.data) ELSE reviews[i]]
            /\ resp' = EditResponse("edit", 200, putReq.viewer, putReq.id)
    /\ putReq' = IdlePut
    /\ UNCHANGED <<clock, ledger, unlockReq, listReq, delReq, geoVars, apiVars>>

\* DELETE: findUnique and the ownership check.
DeleteFind(viewer, id) ==
    /\ delReq.pc = "idle"
    /\ IF ~HasReview(id)
       THEN resp' = EditResponse("delete", 404, viewer, id) /\ UNCHANGED delReq
       ELSE IF NotOwner(ReviewAt(id), viewer)
       THEN resp' = EditResponse("delete", 403, viewer, id) /\ UNCHANGED delReq
       ELSE /\ delReq' = [pc |-> "delete", viewer |-> viewer, id |-> id]
            /\ resp' = NoResp
    /\ UNCHANGED <<reviews, clock, ledger, unlockReq, listReq, putReq, geoVars, apiVars>>

Without(rows, id) == SelectSeq(rows, LAMBDA r : r.id # id)

\* DELETE: the delete; it throws when the row is gone.
DeleteRow ==
    /\ delReq.pc = "delete"
    /\ IF ~HasReview(delReq.id)
       THEN /\ resp' = EditResponse("delete", 500, delReq.viewer, delReq.id)
            /\ UNCHANGED reviews
       ELSE /\ reviews' = Without(reviews, delReq.id)
            /\ resp' = EditResponse("delete", 200, delReq.viewer, delReq.id)
    /\ delReq' = IdleDelete
    /\ UNCHANGED <<clock, ledger, unlockReq, listReq, putReq, geoVars, apiVars>>


-----------------------------------------------------------------------------
\* Store reports: /api/store-reports (authenticateToken on every route) and
\* PATCH /api/admin/store-reports/:id/status.

\* Text is a sequence of characters; trim() removes the blanks at both ends.
RECURSIVE TrimLeft(_)
TrimLeft(t) == IF t # <<>> /\ Head(t) = " " THEN TrimLeft(Tail(t)) ELSE t
RECURSIVE TrimRight(_)
TrimRight(t) ==
    IF t # <<>> /\ t[Len(t)] = " " THEN TrimRight(SubSeq(t, 1, Len(t) - 1)) ELSE t
Trim(t) == TrimRight(TrimLeft(t))

ReportStatuses == {"pending", "approved", "rejected"}

ReportRow(id, userId, storeName, address, status) ==
    [id |-> id, userId |-> userId, storeName |-> storeName,
     address |-> address, status |-> status]

HasReport(id) == \E i \in DOMAIN reports : reports[i].id = id
ReportAt(id)  == reports[CHOOSE i \in DOMAIN reports : reports[i].id = id]
\* findFirst({ where: { id, userId } }) found a row.
OwnReport(id, userId) == HasReport(id) /\ ReportAt(id).userId = userId

ReportResponse(kind, status, viewer, id) ==
    [Response(kind, status, viewer, 0) EXCEPT !.id = id]

\* Everything but the store reports and the response.
besidesReports == <<geoVars, reviews, clock, ledger, unlockReq, listReq, editVars,
                    payVars, favVars, alertVars, cronVars>>

\* Request bodies tried: a name, the same name after a blank, no name.
ReportNames     == {<<"A">>, <<" ", "A">>, <<>>}
ReportAddresses == {<<"X">>}
ReportIds       == 1..(MaxReports + 1)

\* existingReport.status !== 'pending'
NotPending(report) == report.status # "pending"

\* PUT /:id: findFirst on (id, userId), the status check, the validation.
ReportPutFind(userId, id, storeName, address) ==
    /\ reportReq.put.pc = "idle"
    /\ IF ~OwnReport(id, userId)
       THEN resp' = ReportResponse("report-put", 404, userId, id) /\ UNCHANGED reportReq
       ELSE IF NotPending(ReportAt(id))
       THEN resp' = ReportResponse("report-put", 400, userId, id) /\ UNCHANGED reportReq
       ELSE IF storeName = <<>> \/ address = <<>>
       THEN resp' = ReportResponse("report-put", 400, userId, id) /\ UNCHANGED reportReq
       ELSE /\ reportReq' = [reportReq EXCEPT !.put =
                [IdleReport EXCEPT !.pc = "update", !.userId = userId, !.id = id,
                                   !.storeName = storeName, !.address = address]]
            /\ resp' = NoResp
    /\ UNCHANGED <<reports, besidesReports>>

\* PUT /:id: update({ where: { id } }); it throws when the row is gone.
ReportPutUpdate ==
    LET r == reportReq.put
    IN  /\ r.pc = "update"
        /\ IF ~HasReport(r.id)
           THEN /\ resp' = ReportResponse("report-put", 500, r.userId, r.id)
                /\ UNCHANGED reports
           ELSE /\ reports' = [i \in DOMAIN reports |->
                                IF reports[i].id = r.id
                                THEN [reports[i] EXCEPT !.storeName = Trim(r.storeName),
                                                        !.address = Trim(r.address)]
                                ELSE reports[i]]
                /\ resp' = ReportResponse("report-put", 200, r.userId, r.id)
        /\ reportReq' = [reportReq EXCEPT !.put = IdleReport]
        /\ UNCHANGED besidesReports

\* DELETE /:id: findFirst on (id, userId) and the status check.
ReportDeleteFind(userId, id) ==
    /\ reportReq.del.pc = "idle"
    /\ IF ~OwnReport(id, userId)
       THEN resp' = ReportResponse("report-delete", 404, userId, id) /\ UNCHANGED reportReq
       ELSE IF NotPending(ReportAt(id))
       THEN resp' = ReportResponse("report-delete", 400, userId, id) /\ UNCHANGED reportReq
       ELSE /\ reportReq' = [reportReq EXCEPT !.del =
                [IdleReport EXCEPT !.pc = "delete", !.userId = userId, !.id = id]]
            /\ resp' = NoResp
    /\ UNCHANGED <<reports, besidesReports>>

\* DELETE /:id: delete({ where: { id } }); it throws when the row is gone.
ReportDeleteRow ==
    LET r == reportReq.del
    IN  /\ r.pc = "delete"
        /\ IF ~HasReport(r.id)
           THEN /\ resp' = ReportResponse("report-delete", 500, r.userId, r.id)
                /\ UNCHANGED reports
           ELSE /\ reports' = SelectSeq(reports, LAMBDA row : row.id # r.id)
                /\ resp' = ReportResponse("report-delete", 200, r.userId, r.id)
        /\ reportReq' = [reportReq EXCEPT !.del = IdleReport]
        /\ UNCHANGED besidesReports

\* POST /: the duplicate check looks for a report of the user with the name
\* and address as submitted whose status is not rejected.
ExistingReport(userId, storeName, address) ==
    \E i \in DOMAIN reports :
        /\ reports[i].userId = userId
        /\ reports[i].storeName = storeName
        /\ reports[i].address = address
        /\ reports[i].status # "rejected"

PostsInFlight == Cardinality({ c \in Conns : reportReq.post[c].pc = "create" })

\* POST /: validation and the duplicate check.
PostReportFind(c, userId, storeName, address) ==
    /\ reportReq.post[c].pc = "idle"
    /\ clock + PostsInFlight <= MaxReports
    /\ IF storeName = <<>> \/ address = <<>>
       THEN resp' = ReportResponse("report-post", 400, userId, 0) /\ UNCHANGED reportReq
       ELSE IF ExistingReport(userId, storeName, address)
       THEN resp' = ReportResponse("report-post", 409, userId, 0) /\ UNCHANGED reportReq
       ELSE /\ reportReq' = [reportReq EXCEPT !.post[c] =
                [IdleReport EXCEPT !.pc = "create", !.userId = userId,
                                   !.storeName = storeName, !.address = address]]
            /\ resp' = NoResp
    /\ UNCHANGED <<reports, besidesReports>>

\* POST /: create with the trimmed name and address, status pending.
PostReportCreate(c) ==
    LET r == reportReq.post[c]
    IN  /\ r.pc = "create"
        /\ reports' = Append(reports,
                ReportRow(clock, r.userId, Trim(r.storeName), Trim(r.address), "pending"))
        /\ clock' = clock + 1
        /\ resp' = ReportResponse("report-post", 201, r.userId, clock)
        /\ reportReq' = [reportReq EXCEPT !.post[c] = IdleReport]
        /\ UNCHANGED <<geoVars, reviews, ledger, unlockReq, listReq, editVars,
                       payVars, favVars, alertVars, cronVars>>

\* PATCH /store-reports/:id/status (admin): validation and findUnique.
PatchStatuses == ReportStatuses \cup {"archived"}
PatchStatusFind(id, status) ==
    /\ reportReq.patch.pc = "idle"
    /\ IF status \notin ReportStatuses
       THEN resp' = ReportResponse("report-status", 400, NoUser, id) /\ UNCHANGED reportReq
       ELSE IF ~HasReport(id)
       THEN resp' = ReportResponse("report-status", 404, NoUser, id) /\ UNCHANGED reportReq
       ELSE /\ reportReq' = [reportReq EXCEPT !.patch =
                [IdleReport EXCEPT !.pc = "update", !.id = id, !.status = status]]
            /\ resp' = NoResp
    /\ UNCHANGED <<reports, besidesReports>>

\* PATCH: update({ where: { id }, data: { status } }).
PatchStatusUpdate ==
    LET r == reportReq.patch
    IN  /\ r.pc = "update"
        /\ IF ~HasReport(r.id)
           THEN /\ resp' = ReportResponse("report-status", 500, NoUser, r.id)
                /\ UNCHANGED reports
           ELSE /\ reports' = [i \in DOMAIN reports |->
                                IF reports[i].id = r.id
                                THEN [reports[i] EXCEPT !.status = r.status]
                                ELSE reports[i]]
                /\ resp' = ReportResponse("report-status", 200, NoUser, r.id)
        /\ reportReq' = [reportReq EXCEPT !.patch = IdleReport]
        /\ UNCHANGED besidesReports


-----------------------------------------------------------------------------
\* Payments: POST /api/payment/execute and GET /api/payment/:id
\* (authenticateToken; req.user.userKey identifies the payer).

besidesPayments == <<geoVars, reviews, clock, ledger, unlockReq, listReq, editVars,
                     reportVars, favVars, alertVars, cronVars>>

PayTokens  == 0..(MaxPayments + 1)    \* 0: no payToken in the body
PaymentIds == 1..(MaxPayments + 1)

HasPayToken(t) == \E i \in DOMAIN payments : payments[i].payToken = t
PaymentOf(t)   == payments[CHOOSE i \in DOMAIN payments : payments[i].payToken = t]
HasPayment(id) == \E i \in DOMAIN payments : payments[i].id = id
PaymentAt(id)  == payments[CHOOSE i \in DOMAIN payments : payments[i].id = id]

PayResponse(kind, status, userKey, id) ==
    [Response(kind, status, userKey, 0) EXCEPT !.id = id]

\* Variant: every caller passes the owner check.
NotPayer_Never(payment, userKey) == FALSE

\* payment.userKey !== userKey
NotPayer(payment, userKey) == payment.userKey # userKey

\* prisma.payment.update({ where: { id }, data: { status } })
SetStatus(id, status) ==
    [i \in DOMAIN payments |->
        IF payments[i].id = id THEN [payments[i] EXCEPT !.status = status]
        ELSE payments[i]]

\* POST /execute: validation, findFirst by payToken, owner check, completed check.
ExecuteFind(c, userKey, payToken) ==
    /\ payReq[c].pc = "idle"
    /\ tossCalls < MaxTossCalls
    /\ IF payToken = 0
       THEN resp' = PayResponse("pay-execute", 400, userKey, 0) /\ UNCHANGED payReq
       ELSE IF ~HasPayToken(payToken)
       THEN resp' = PayResponse("pay-execute", 404, userKey, 0) /\ UNCHANGED payReq
       ELSE IF NotPayer(PaymentOf(payToken), userKey)
       THEN /\ resp' = PayResponse("pay-execute", 403, userKey, PaymentOf(payToken).id)
            /\ UNCHANGED payReq
       ELSE IF PaymentOf(payToken).status = "completed"
       THEN /\ resp' = [PayResponse("pay-execute", 200, userKey, PaymentOf(payToken).id)
                          EXCEPT !.data = <<PaymentOf(payToken)>>, !.existed = TRUE]
            /\ UNCHANGED payReq
       ELSE /\ payReq' = [payReq EXCEPT ![c] =
                [pc |-> "toss", userKey |-> userKey, payToken |-> payToken,
                 id |-> PaymentOf(payToken).id]]
            /\ resp' = NoResp
    /\ UNCHANGED <<payments, tossCalls, besidesPayments>>

\* POST /execute: executePayment(userKey, { payToken, orderNo }) returns or throws.
ExecuteToss(c, ok) ==
    /\ payReq[c].pc = "toss"
    /\ tossCalls' = tossCalls + 1
    /\ payReq' = [payReq EXCEPT ![c].pc = IF ok THEN "completed" ELSE "failed"]
    /\ resp' = NoResp
    /\ UNCHANGED <<payments, besidesPayments>>

\* POST /execute: the status update after the Toss call, and the response.
ExecuteUpdate(c) ==
    LET r == payReq[c]
    IN  /\ r.pc \in {"completed", "failed"}
        /\ payments' = SetStatus(r.id, r.pc)
        /\ resp' = IF r.pc = "completed"
                   THEN [PayResponse("pay-execute", 200, r.userKey, r.id)
                            EXCEPT !.data = <<[PaymentAt(r.id) EXCEPT !.status = r.pc]>>]
                   ELSE PayResponse("pay-execute", 500, r.userKey, r.id)
        /\ payReq' = [payReq EXCEPT ![c] = IdlePay]
        /\ UNCHANGED <<tossCalls, besidesPayments>>

\* GET /:id: findUnique, owner check, the payment.
GetPayment(userKey, id) ==
    /\ IF ~HasPayment(id)
       THEN resp' = PayResponse("pay-get", 404, userKey, id)
       ELSE IF NotPayer(PaymentAt(id), userKey)
       THEN resp' = PayResponse("pay-get", 403, userKey, id)
       ELSE resp' = [PayResponse("pay-get", 200, userKey, id)
                        EXCEPT !.data = <<PaymentAt(id)>>]
    /\ UNCHANGED <<payVars, besidesPayments>>


-----------------------------------------------------------------------------
\* Favorites: POST /api/favorites/:storeId, await by await.

besidesFavorites == <<geoVars, reviews, clock, ledger, unlockReq, listReq, editVars,
                      reportVars, payVars, alertVars, cronVars>>

\* parseInt(req.params.storeId): 0 stands for a parameter that is 0 or not a
\* number.
FavStoreIds == 0..(NumStores + 1)

\* prisma.favorite.findUnique on the compound key unique_user_store_favorite.
HasFavorite(f, u, s) == \E i \in DOMAIN f : f[i].userId = u /\ f[i].storeId = s

\* Variant: the table has no unique index on (userId, storeId).
FavoriteConflict_NoIndex(f, u, s) == FALSE

\* The unique index behind unique_user_store_favorite: an insert of a second
\* row for the same (userId, storeId) is refused by the database.
FavoriteConflict(f, u, s) == \E i \in DOMAIN f : f[i].userId = u /\ f[i].storeId = s

\* prisma.favorite.create({ data: { userId, storeId } })
FavoriteInsert(f, u, s) == Append(f, [userId |-> u, storeId |-> s])

\* The request arrives: login and parameter checks, then the store lookup.
FavFindStore(c, userId, storeId) ==
    /\ favReq[c].pc = "idle"
    /\ IF userId = NoUser
       THEN resp' = Response("fav-post", 401, userId, storeId) /\ UNCHANGED favReq
       ELSE IF storeId = 0
       THEN resp' = Response("fav-post", 400, userId, storeId) /\ UNCHANGED favReq
       ELSE IF ~StoreExists(storeId)
       THEN resp' = Response("fav-post", 404, userId, storeId) /\ UNCHANGED favReq
       ELSE /\ favReq' = [favReq EXCEPT ![c] =
                [pc |-> "findExisting", userId |-> userId, storeId |-> storeId,
                 favorited |-> HasFavorite(favorites, userId, storeId)]]
            /\ resp' = NoResp
    /\ UNCHANGED <<favorites, besidesFavorites>>

\* existingFavorite: 409 when the row is already there.
FavFindExisting(c) ==
    LET r == favReq[c]
    IN  /\ r.pc = "findExisting"
        /\ IF HasFavorite(favorites, r.userId, r.storeId)
           THEN /\ resp' = [Response("fav-post", 409, r.userId, r.storeId)
                              EXCEPT !.existed = TRUE]
                /\ favReq' = [favReq EXCEPT ![c] = IdleFav]
           ELSE /\ resp' = NoResp
                /\ favReq' = [favReq EXCEPT ![c].pc = "create"]
        /\ UNCHANGED <<favorites, besidesFavorites>>

\* create: the insert (201), or the exception it throws on the unique key,
\* which the handler's catch answers with 500.
FavCreate(c) ==
    LET r == favReq[c]
    IN  /\ r.pc = "create"
        /\ IF FavoriteConflict(favorites, r.userId, r.storeId)
           THEN /\ resp' = [Response("fav-post", 500, r.userId, r.storeId)
                              EXCEPT !.existed = TRUE]
                /\ UNCHANGED favorites
           ELSE /\ favorites' = FavoriteInsert(favorites, r.userId, r.storeId)
                /\ resp' = Response("fav-post", 201, r.userId, r.storeId)
        /\ favReq' = [favReq EXCEPT ![c] = IdleFav]
        /\ UNCHANGED besidesFavorites


-----------------------------------------------------------------------------
\* Open alerts: POST /api/open-alerts (authenticateToken), await by await.

besidesAlerts == <<geoVars, reviews, clock, ledger, unlockReq, listReq, editVars,
                   reportVars, payVars, favVars, cronVars>>

\* /^[0-9-]+$/.test(phone)
PhoneRegex(phone) ==
    /\ phone # <<>>
    /\ \A i \in DOMAIN phone : IsDigit(phone[i]) \/ phone[i] = "-"

\* The checks on storeName, name and phone, in the handler's order; a request
\* that fails one is answered 400.
InvalidAlert(b) ==
    \/ b.storeName = <<>> \/ b.name = <<>> \/ b.phone = <<>>
    \/ Len(b.storeName) > 100
    \/ Len(b.name) > 50
    \/ ~PhoneRegex(b.phone) \/ Len(b.phone) < 10 \/ Len(b.phone) > 15

\* Request bodies: a well-formed one, one with blanks around the store name,
\* one without a name, one with a phone number that is too short.
AlertPhone  == <<"0", "1", "0", "-", "1", "2", "3", "-", "4", "5", "6">>
AlertBodies ==
    { [storeName |-> <<"A">>, name |-> <<"K">>, phone |-> AlertPhone],
      [storeName |-> <<" ", "A", " ">>, name |-> <<"K">>, phone |-> AlertPhone],
      [storeName |-> <<"A">>, name |-> <<>>, phone |-> AlertPhone],
      [storeName |-> <<"A">>, name |-> <<"K">>, phone |-> <<"0", "1", "0">>] }

\* prisma.openAlert.findFirst({ where: { userId } })
HasAlert(a, u) == \E i \in DOMAIN a : a[i].userId = u

\* Variant: the database refuses a second row with the same userId.
AlertInsertRefused_UniqueUser(a, u) == HasAlert(a, u)

\* prisma.openAlert.create throws only when the database refuses the row; the
\* handler names no unique key on userId (it reads with findFirst).
AlertInsertRefused(a, u) == FALSE

\* prisma.openAlert.create({ data: { userId, storeName.trim(), name.trim(),
\* phone.trim() } })
AlertInsert(a, u, b) ==
    Append(a, [id |-> Len(a) + 1, userId |-> u, storeName |-> Trim(b.storeName),
               name |-> Trim(b.name), phone |-> Trim(b.phone)])

AlertResponse(status, userId, id) ==
    [Response("alert-post", status, userId, 0) EXCEPT !.id = id]

\* The request arrives: validation, then existingAlert.
AlertFind(c, userId, b) ==
    /\ alertReq[c].pc = "idle"
    /\ IF InvalidAlert(b)
       THEN resp' = AlertResponse(400, userId, 0) /\ UNCHANGED alertReq
       ELSE IF HasAlert(alerts, userId)
       THEN /\ resp' = [AlertResponse(409, userId, 0) EXCEPT !.existed = TRUE]
            /\ UNCHANGED alertReq
       ELSE /\ alertReq' = [alertReq EXCEPT ![c] =
                [pc |-> "create", userId |-> userId, body |-> b]]
            /\ resp' = NoResp
    /\ UNCHANGED <<alerts, besidesAlerts>>

\* create: the insert (201), or the exception it throws, which the handler's
\* catch answers with 500.
AlertCreate(c) ==
    LET r == alertReq[c]
    IN  /\ r.pc = "create"
        /\ IF AlertInsertRefused(alerts, r.userId)
           THEN /\ resp' = [AlertResponse(500, r.userId, 0) EXCEPT !.existed = TRUE]
                /\ UNCHANGED alerts
           ELSE /\ alerts' = AlertInsert(alerts, r.userId, r.body)
                /\ resp' = AlertResponse(201, r.userId, Len(alerts) + 1)
        /\ alertReq' = [alertReq EXCEPT ![c] = IdleAlert]
        /\ UNCHANGED besidesAlerts


-----------------------------------------------------------------------------
\* GET /api/scheduler/cron/daily-report.

besidesCron == <<geoVars, reviews, clock, ledger, unlockReq, listReq, editVars,
                 reportVars, payVars, favVars, alertVars>>

\* `Bearer ${cronSecret}`
Bearer(secret) == <<"B", "e", "a", "r", "e", "r", " ">> \o secret

\* process.env.CRON_SECRET: unset, the empty string, or a secret.
Secret      == <<"s", "3">>
CronSecrets == {Unset, <<>>, Secret}

\* req.headers.authorization: absent, the expected header, a header for
\* another secret, the secret without the scheme, the scheme without a secret.
Authorizations ==
    {Undefined, Bearer(Secret), Bearer(<<"s">>), Secret, Bearer(<<>>)}

\* A string is truthy unless it is empty; undefined is falsy.
Truthy(v) == v # Unset /\ v # <<>>

\* Variant: any header is accepted.
CronRefused_Never(secret, authHeader) == FALSE

\* cronSecret && authHeader !== `Bearer ${cronSecret}`
CronRefused(secret, authHeader) ==
    Truthy(secret) /\ authHeader # Bearer(secret)

CronResponse(status) == Response("cron", status, NoUser, 0)

\* The request arrives: the Authorization check; 401 ends the request.
CronRequest(authHeader) ==
    /\ cronReq.pc = "idle"
    /\ cronRuns < MaxCronRuns
    /\ IF CronRefused(cronSecret, authHeader)
       THEN /\ resp' = CronResponse(401)
            /\ cronReq' = [pc |-> "idle", authorization |-> authHeader]
       ELSE /\ resp' = NoResp
            /\ cronReq' = [pc |-> "trigger", authorization |-> authHeader]
    /\ UNCHANGED <<cronSecret, cronRuns, besidesCron>>

\* await triggerDailyReport(): it returns true (200), returns false (500) or
\* throws (500).
CronTrigger(result) ==
    /\ cronReq.pc = "trigger"
    /\ cronRuns' = cronRuns + 1
    /\ resp' = [CronResponse(IF result = "true" THEN 200 ELSE 500)
                  EXCEPT !.existed = (result = "throws")]
    /\ cronReq' = [cronReq EXCEPT !.pc = "idle"]
    /\ UNCHANGED <<cronSecret, besidesCron>>


----------------------------------------------------------------------------
\* The review list: an empty Review table, a ledger with at most one row.
Init ==
    /\ GeoIdle /\ Quiet
    /\ reviews = <<>>
    /\ clock = 1
    /\ ledger \in SmallLedgers
    /\ ApiIdle

Next ==
    \/ \E v \in Viewers, s \in StoreIds, r \in RatingInputs : PostReviewV2(v, s, r)
    \/ \E v \in Viewers, s \in StoreIds : ListFindUnlock(v, s)
    \/ \E sb \in SortBys, l \in Limits, o \in Offsets : ListFindMany(sb, l, o)
    \/ \E u \in Users, s \in StoreIds : GetUnlockStatus(u, s)

Spec == Init /\ [][Next]_vars

\* The unlock ledger: store 1 holds MaxReviews reviews (by user 1, by user 2,
\* ..., by an anonymous submitter, ...), the ledger is empty.
PostedReviews ==
    [i \in 1..MaxReviews |->
        NewReview(i, i % (NumUsers + 1), 1,
                  IF i % 2 = 1 THEN RatingMax ELSE RatingMin)]

InitUnlock ==
    /\ GeoIdle /\ Quiet
    /\ reviews = PostedReviews
    /\ clock = MaxReviews + 1
    /\ ledger = <<>>
    /\ ApiIdle

NextUnlock ==
    \/ \E v \in Viewers, s \in StoreIds : ListFindUnlock(v, s)
    \/ \E sb \in SortBys, l \in Limits, o \in Offsets : ListFindMany(sb, l, o)
    \/ \E u \in Users, s \in StoreIds : GetUnlockStatus(u, s)
    \/ \E c \in Conns, u \in Users, s \in StoreIds : UnlockFindStore(c, u, s)
    \/ \E c \in Conns : UnlockFindExisting(c)
    \/ \E c \in Conns : UnlockCreate(c)

SpecUnlock == InitUnlock /\ [][NextUnlock]_vars

InitGeo ==
    /\ GeoStart /\ Quiet
    /\ reviews = <<>>
    /\ clock = 1
    /\ ledger = <<>>
    /\ ApiIdle

SpecGeo == InitGeo /\ [][NextGeo]_vars

\* Editing: store 1 holds a review by user 1 and an anonymous one; reviews
\* are created, edited and deleted.
EditTable ==
    <<NewReview(1, 1, 1, RatingMax), NewReview(2, NoUser, 1, RatingMin)>>

InitEdit ==
    /\ GeoIdle /\ Quiet
    /\ reviews = EditTable
    /\ clock = Len(EditTable) + 1
    /\ ledger = <<>>
    /\ ApiIdle

NextEdit ==
    \/ \E v \in Viewers, s \in StoreIds, r \in RatingInputs \cup RatingStrings,
          n \in UserNames : PostReview(v, s, r, n)
    \/ \E v \in Viewers, s \in StoreIds, r \in RatingInputs \cup RatingStrings :
          PostReviewV2(v, s, r)
    \/ \E u \in Users, id \in ReviewIds, b \in EditBodies : PutFind(u, id, b)
    \/ PutUpdate
    \/ \E u \in Users, id \in ReviewIds : DeleteFind(u, id)
    \/ DeleteRow

SpecEdit == InitEdit /\ [][NextEdit]_vars

\* Store reports under review: each user has one pending report; authors
\* edit and delete while the admin changes statuses.
FiledReports ==
    [i \in 1..MaxReports |->
        ReportRow(i, ((i - 1) % NumUsers) + 1, <<"B">>, <<"X">>, "pending")]

ReviewsEmpty == reviews = <<>> /\ clock = 1 /\ ledger = <<>>

InitReport ==
    /\ GeoIdle /\ Quiet /\ ReviewsEmpty
    /\ PaymentsIdle /\ FavoritesIdle /\ AlertsIdle /\ CronIdle
    /\ reports = FiledReports

NextReport ==
    \/ \E u \in Users, id \in ReportIds, n \in ReportNames, a \in ReportAddresses :
          ReportPutFind(u, id, n, a)
    \/ ReportPutUpdate
    \/ \E u \in Users, id \in ReportIds : ReportDeleteFind(u, id)
    \/ ReportDeleteRow
    \/ \E id \in ReportIds, st \in PatchStatuses : PatchStatusFind(id, st)
    \/ PatchStatusUpdate

SpecReport == InitReport /\ [][NextReport]_vars

\* Store reports are filed, by concurrent requests, while the admin changes
\* statuses.
InitReportPost ==
    /\ GeoIdle /\ Quiet /\ ReviewsEmpty
    /\ PaymentsIdle /\ FavoritesIdle /\ AlertsIdle /\ CronIdle
    /\ reports = <<>>

NextReportPost ==
    \/ \E c \in Conns, u \in Users, n \in ReportNames, a \in ReportAddresses :
          PostReportFind(c, u, n, a)
    \/ \E c \in Conns : PostReportCreate(c)
    \/ \E id \in ReportIds, st \in PatchStatuses : PatchStatusFind(id, st)
    \/ PatchStatusUpdate

SpecReportPost == InitReportPost /\ [][NextReportPost]_vars

\* Payments: payment 1 (of user 1) is ready to be executed, the others are
\* completed; concurrent POST /execute requests and GET /:id.
PaymentTable ==
    [i \in 1..MaxPayments |->
        [id |-> i, payToken |-> i, userKey |-> ((i - 1) % NumUsers) + 1,
         status |-> IF i = 1 THEN "created" ELSE "completed"]]

InitPay ==
    /\ GeoIdle /\ Quiet /\ ReviewsEmpty
    /\ reports = <<>> /\ FavoritesIdle /\ AlertsIdle /\ CronIdle
    /\ payments = PaymentTable
    /\ tossCalls = 0

NextPay ==
    \/ \E c \in Conns, u \in Users, t \in PayTokens : ExecuteFind(c, u, t)
    \/ \E c \in Conns, ok \in BOOLEAN : ExecuteToss(c, ok)
    \/ \E c \in Conns : ExecuteUpdate(c)
    \/ \E u \in Users, id \in PaymentIds : GetPayment(u, id)

SpecPay == InitPay /\ [][NextPay]_vars

\* Favorites: an empty Favorite table, concurrent POST /:storeId requests.
InitFav ==
    /\ GeoIdle /\ Quiet /\ ReviewsEmpty
    /\ reports = <<>> /\ PaymentsIdle /\ AlertsIdle /\ CronIdle
    /\ favorites = <<>>

NextFav ==
    \/ \E c \in Conns, u \in Viewers, s \in FavStoreIds : FavFindStore(c, u, s)
    \/ \E c \in Conns : FavFindExisting(c)
    \/ \E c \in Conns : FavCreate(c)

SpecFav == InitFav /\ [][NextFav]_vars

\* Open alerts: an empty OpenAlert table, concurrent POST / requests.
InitAlert ==
    /\ GeoIdle /\ Quiet /\ ReviewsEmpty
    /\ reports = <<>> /\ PaymentsIdle /\ FavoritesIdle /\ CronIdle
    /\ alerts = <<>>

NextAlert ==
    \/ \E c \in Conns, u \in Users, b \in AlertBodies : AlertFind(c, u, b)
    \/ \E c \in Conns : AlertCreate(c)

SpecAlert == InitAlert /\ [][NextAlert]_vars

\* The cron endpoint: CRON_SECRET is fixed when the process starts.
InitCron ==
    /\ GeoIdle /\ Quiet /\ ReviewsEmpty
    /\ reports = <<>> /\ PaymentsIdle /\ FavoritesIdle /\ AlertsIdle
    /\ cronSecret \in CronSecrets
    /\ cronRuns = 0
    /\ cronReq = IdleCron

NextCron ==
    \/ \E h \in Authorizations : CronRequest(h)
    \/ \E r \in {"true", "false", "throws"} : CronTrigger(r)

SpecCron == InitCron /\ [][NextCron]_vars

(***************************************************************************)
(*                                Properties                               *)
(***************************************************************************)
Range(f) == { f[i] : i \in DOMAIN f }

\* The Review row an output review was made from.
RowById(id) == CHOOSE r \in Range(reviews) : r.id = id

\* The newest review of a store (createdAt is unique).
IsMostRecent(row) ==
    \A r \in Range(reviews) : r.storeId = row.storeId => r.createdAt <= row.createdAt

Unredacted(out, row) ==
    /\ out.content = row.content
    /\ out.images = row.images
    /\ out.tags = row.tags
    /\ out.dollImages = row.dollImages
    /\ out.isBlinded = FALSE

Redacted(out) ==
    /\ out.content = BlindText
    /\ out.images = <<>>
    /\ out.tags = <<>>
    /\ out.dollImages = <<>>
    /\ out.isBlinded = TRUE

\* C1: for all finite inputs (x, y), tmToWgs84 returns lat in [33, 43] and
\* lng in [124, 132], whichever branch produced the value.
C1_RangeInvariant ==
    (geoPc = "done" /\ IsFinite(ParseFloat(geoIn.x)) /\ IsFinite(ParseFloat(geoIn.y)))
        => /\ geoOut.lat >= Micro(ClampLatMin) /\ geoOut.lat <= Micro(ClampLatMax)
           /\ geoOut.lng >= Micro(ClampLngMin) /\ geoOut.lng <= Micro(ClampLngMax)

\* C2: when isUnlocked is false, the first review of the response is
\* unredacted and every later one has the placeholder content, empty images,
\* tags and dollImages, and isBlinded = true.
C2_LockedGate ==
    (resp.kind = "list" /\ ~resp.isUnlocked) =>
        \A i \in DOMAIN resp.data :
            IF i = 1 THEN Unredacted(resp.data[i], RowById(resp.data[i].id))
            ELSE Redacted(resp.data[i])

\* A locked response of three reviews, the rows having content and media.
C2_Witness ==
    /\ resp.kind = "list" /\ ~resp.isUnlocked
    /\ Len(resp.data) >= 3
    /\ \A i \in DOMAIN resp.data :
          /\ RowById(resp.data[i].id).content # BlindText
          /\ RowById(resp.data[i].id).images # <<>>

\* C3: a viewer without an unlock (anonymous, or logged in with no unlock
\* row) is never sent a review other than the store's most recent one with
\* its real content, whatever limit, offset and sortBy are.
C3_OnlyMostRecentVisible ==
    (resp.kind = "list" /\ ~resp.isUnlocked) =>
        \A i \in DOMAIN resp.data :
            ~resp.data[i].isBlinded => IsMostRecent(RowById(resp.data[i].id))

\* C4: when isUnlocked is true, every review of the response is unredacted,
\* at every index.
C4_UnlockedGate ==
    (resp.kind = "list" /\ resp.isUnlocked) =>
        \A i \in DOMAIN resp.data :
            Unredacted(resp.data[i], RowById(resp.data[i].id))

\* An unlocked response of several reviews.
C4_Witness ==
    /\ resp.kind = "list" /\ resp.isUnlocked
    /\ Len(resp.data) >= 3
    /\ RowById(resp.data[2].id).content # BlindText

\* C5: the isUnlocked of the review list is true iff the request is
\* authenticated and the ledger holds a row for (viewer, store) when it is
\* looked up; it is false for an anonymous request whatever the ledger
\* holds; and the response reports that same value.
C5_UnlockedIffRecord ==
    [][ /\ (listReq.pc = "idle" /\ listReq'.pc = "findMany") =>
              (listReq'.isUnlocked <=>
                  /\ listReq'.viewer \in Users
                  /\ \E i \in DOMAIN ledger :
                        /\ ledger[i].userId = listReq'.viewer
                        /\ ledger[i].storeId = listReq'.storeId)
        /\ (listReq.pc = "findMany" /\ listReq'.pc = "idle") =>
              (resp'.kind = "list" /\ resp'.isUnlocked = listReq.isUnlocked)
      ]_vars

\* An anonymous list request resolved to locked while the ledger holds a row
\* for its store.
C5_Witness ==
    /\ listReq.pc = "findMany" /\ listReq.viewer = NoUser /\ ~listReq.isUnlocked
    /\ \E i \in DOMAIN ledger : ledger[i].storeId = listReq.storeId

\* C6: the ledger never holds two rows for the same (userId, storeId), under
\* any interleaving of POST /unlock handlers.
C6_AtMostOneRecord ==
    \A i, j \in DOMAIN ledger :
        (ledger[i].userId = ledger[j].userId /\ ledger[i].storeId = ledger[j].storeId)
            => i = j

\* Two handlers of the same user and store both passed the existence check,
\* one has inserted and the other is about to.
C6_Witness ==
    \E c \in Conns :
        /\ unlockReq[c].pc = "create"
        /\ HasUnlock(ledger, unlockReq[c].userId, unlockReq[c].storeId)

\* C7: POST /unlock for an existing store whose row already exists when the
\* handler looks or writes is answered with success and isUnlocked = true,
\* never with an error status.
C7_ExistingIsSuccess ==
    (resp.kind = "unlock" /\ StoreExists(resp.storeId) /\ resp.existed)
        => (resp.status = 200 /\ resp.isUnlocked)

\* C8: the ledger is append-only (no step changes or removes a row), so once
\* (u, s) is unlocked every later unlock-status request and review-list
\* request of u for s resolves isUnlocked = true, and the list sent for it has
\* no blinded review.
C8_AppendOnly ==
    [][ /\ Len(ledger') >= Len(ledger)
        /\ SubSeq(ledger', 1, Len(ledger)) = ledger
        /\ \A u \in Users, s \in Stores :
              HasUnlock(ledger, u, s) =>
                 /\ (resp'.kind = "status" /\ resp'.viewer = u /\ resp'.storeId = s)
                        => resp'.isUnlocked
                 /\ (/\ listReq.pc = "idle" /\ listReq'.pc = "findMany"
                     /\ listReq'.viewer = u /\ listReq'.storeId = s)
                        => listReq'.isUnlocked
        /\ (listReq.pc = "findMany" /\ listReq.isUnlocked /\ listReq'.pc = "idle")
              => /\ resp'.kind = "list" /\ resp'.isUnlocked
                 /\ \A i \in DOMAIN resp'.data : ~resp'.data[i].isBlinded
      ]_vars

\* A list of several reviews sent unlocked to a user who unlocked the store
\* while another user has unlocked it too.
C8_Witness ==
    /\ resp.kind = "list" /\ resp.isUnlocked /\ Len(resp.data) >= 2
    /\ HasUnlock(ledger, resp.viewer, resp.storeId)
    /\ Len(ledger) >= 2

\* C9: every output review carries a boolean isOwner, true iff the viewer is
\* authenticated and is the review's author, false otherwise (anonymous
\* viewer included).
C9_IsOwnerBoolean ==
    resp.kind = "list" =>
        \A i \in DOMAIN resp.data :
            resp.data[i].isOwner =
                (IF /\ resp.viewer # NoUser
                    /\ RowById(resp.data[i].id).userId = resp.viewer
                 THEN "true" ELSE "false")

\* C10: a blinded output review has the id, rating, userName, userAvatar,
\* isOwner, dollCount, spentAmount, createdAt and updatedAt of the unblinded
\* projection of the same review: the rating is the row's and the name is
\* the author's display name.
C10_BlindFrame ==
    resp.kind = "list" =>
        \A i \in DOMAIN resp.data :
            resp.data[i].isBlinded =>
                LET out  == resp.data[i]
                    row  == RowById(out.id)
                    base == BaseReview(row, resp.viewer)
                IN  /\ out.id = base.id
                    /\ out.rating = base.rating /\ out.rating = row.rating
                    /\ out.userName = base.userName
                    /\ out.userName = (IF row.userId # NoUser
                                       THEN Nickname(row.userId) ELSE row.userName)
                    /\ out.userAvatar = base.userAvatar
                    /\ out.isOwner = base.isOwner
                    /\ out.dollCount = base.dollCount
                    /\ out.spentAmount = base.spentAmount
                    /\ out.createdAt = base.createdAt
                    /\ out.updatedAt = base.updatedAt

\* Blinded reviews of a registered author and of an anonymous submitter.
C10_Witness ==
    /\ resp.kind = "list"
    /\ \E i, j \in DOMAIN resp.data :
          /\ resp.data[i].isBlinded /\ RowById(resp.data[i].id).userId # NoUser
          /\ resp.data[j].isBlinded /\ RowById(resp.data[j].id).userId = NoUser

\* C11: with isUnlocked false the blind decision is positional: an output
\* review is blinded iff it is not the first of the page, whatever its rating
\* and author; a blinded review written by the viewer keeps isOwner = true
\* and its real rating.
C11_Positional ==
    (resp.kind = "list" /\ ~resp.isUnlocked) =>
        \A i \in DOMAIN resp.data :
            LET out == resp.data[i]
                row == RowById(out.id)
            IN  /\ out.isBlinded <=> (i > 1)
                /\ (resp.viewer # NoUser /\ row.userId = resp.viewer)
                      => out.isOwner = "true"
                /\ out.rating = row.rating

\* A locked page whose first, unblinded review is not the viewer's while a
\* later, blinded one is the viewer's own and has the higher rating.
C11_Witness ==
    /\ resp.kind = "list" /\ ~resp.isUnlocked /\ resp.viewer # NoUser
    /\ Len(resp.data) >= 2
    /\ ~resp.data[1].isBlinded
    /\ RowById(resp.data[1].id).userId # resp.viewer
    /\ resp.data[2].isBlinded
    /\ resp.data[2].isOwner = "true"
    /\ RowById(resp.data[2].id).rating > RowById(resp.data[1].id).rating


\* ---- tmToWgs84, branch by branch (SpecGeo) ----

\* The parsed arguments of the call, and which branch they select.
ParsedX == ParseFloat(geoIn.x)
ParsedY == ParseFloat(geoIn.y)
BothFinite == ParsedX.kind = "num" /\ ParsedY.kind = "num"
InGeoWindow ==
    /\ BothFinite
    /\ ParsedX.v >= 100000 /\ (ParsedX.v < 140000 \/ (ParsedX.v = 140000 /\ ParsedX.u = 0))
    /\ ParsedY.v >= 30000  /\ (ParsedY.v < 45000 \/ (ParsedY.v = 45000 /\ ParsedY.u = 0))
InPlanarBounds ==
    /\ BothFinite
    /\ ParsedX.v >= 50000000 /\ (ParsedX.v < 350000000 \/ (ParsedX.v = 350000000 /\ ParsedX.u = 0))
    /\ ParsedY.v >= 0 /\ (ParsedY.v < 700000000 \/ (ParsedY.v = 700000000 /\ ParsedY.u = 0))
SeoulCenter == [lat |-> 37566500, lng |-> 126978000]

\* C12: when the parsed x is in [100, 140] and the parsed y is in [30, 45],
\* the call returns exactly {lat: y, lng: x}: no bias, no clamp, no default.
C12_PassThrough ==
    (geoPc = "done" /\ InGeoWindow) =>
        geoOut = [lat |-> ParsedY.v * 1000 + ParsedY.u,
                  lng |-> ParsedX.v * 1000 + ParsedX.u]

\* A call with (127.0, 37.5) has returned {lat: 37.5, lng: 127.0}.
C12_Witness ==
    /\ geoPc = "done"
    /\ geoIn = [x |-> Num(127000), y |-> Num(37500)]
    /\ geoOut = [lat |-> 37500000, lng |-> 127000000]

\* C13: when the parsed x or the parsed y is not finite (NaN, an infinity, a
\* non-numeric string), the call returns exactly the default coordinate,
\* whatever the other argument is.
C13_NonFiniteDefault ==
    (geoPc = "done" /\ ~BothFinite) => geoOut = SeoulCenter

\* A call with a planar x and a NaN y has returned the default.
C13_Witness ==
    /\ geoPc = "done"
    /\ geoIn = [x |-> Num(198000000), y |-> NaNVal]
    /\ geoOut = SeoulCenter

\* C14: finite arguments outside the geographic window with x outside
\* [50000, 350000] or y outside [0, 700000] return exactly the default; the
\* window check comes first, so an argument pair inside the window is not
\* defaulted by the range guard: it comes back as it went in.
C14_RangeGuard ==
    geoPc = "done" =>
        /\ (BothFinite /\ ~InGeoWindow /\ ~InPlanarBounds) => geoOut = SeoulCenter
        /\ InGeoWindow => /\ geoOut.lat = ParsedY.v * 1000 + ParsedY.u
                          /\ geoOut.lng = ParsedX.v * 1000 + ParsedX.u

\* A call with a planar x and y = -0.001 has returned the default.
C14_Witness ==
    /\ geoPc = "done"
    /\ geoIn = [x |-> Num(198000000), y |-> Num(-1)]
    /\ geoOut = SeoulCenter

\* C15: every call returns a coordinate, never an exception; when the
\* projection step throws, the value returned is exactly the default.
C15_NeverRaises ==
    geoPc = "done" =>
        /\ DOMAIN geoOut = {"lat", "lng"}
        /\ geoOut.lat \in Int /\ geoOut.lng \in Int
        /\ (projFails /\ InPlanarBounds /\ ~InGeoWindow) => geoOut = SeoulCenter

\* A call whose projection threw has returned the default.
C15_Witness ==
    /\ geoPc = "done"
    /\ projFails
    /\ geoIn = [x |-> Num(198000000), y |-> Num(450000000)]
    /\ geoOut = SeoulCenter

\* C16: finite arguments inside the planar bounds and outside the geographic
\* window return clamp(P(x, y) + (0.002747, 0.00079)): the bias once, before
\* the clamp to lat [33, 43], lng [124, 132]; no other branch adds the bias.
C16_BiasThenClamp ==
    geoPc = "done" =>
        IF InPlanarBounds /\ ~InGeoWindow /\ ~projFails
        THEN LET p == Proj4(ParsedX.v, ParsedY.v)
                 lat == p.lat + 2747
                 lng == p.lng + 790
             IN  /\ geoOut.lat = (IF lat < 33000000 THEN 33000000
                                  ELSE IF lat > 43000000 THEN 43000000 ELSE lat)
                 /\ geoOut.lng = (IF lng < 124000000 THEN 124000000
                                  ELSE IF lng > 132000000 THEN 132000000 ELSE lng)
        ELSE \/ geoOut = SeoulCenter
             \/ /\ InGeoWindow
                /\ geoOut = [lat |-> ParsedY.v * 1000 + ParsedY.u,
                             lng |-> ParsedX.v * 1000 + ParsedX.u]

\* The call with x = 198000, y = 450000 has returned the projected point
\* moved by the bias.
C16_Witness ==
    /\ geoPc = "done"
    /\ ~projFails
    /\ geoIn = [x |-> Num(198000000), y |-> Num(450000000)]
    /\ geoOut.lat = Proj4(198000000, 450000000).lat + 2747
    /\ geoOut.lng = Proj4(198000000, 450000000).lng + 790

\* C20: a repeated call with equal arguments returns the same value, and a
\* call on a returned value (x = lng, y = lat) returns that value unchanged.
C20_DeterministicIdempotent ==
    (geoPc = "done" /\ geoAgain # "no") => geoOut = geoPrev

\* A projected (bias-corrected) result was passed back in and came out the same.
C20_Witness ==
    /\ geoPc = "done"
    /\ geoAgain = "fed"
    /\ ~projFails
    /\ geoOut = geoPrev
    /\ geoOut.lat = Proj4(198000000, 450000000).lat + 2747
    /\ geoOut.lng = Proj4(198000000, 450000000).lng + 790


\* ---- Creating, editing and deleting reviews (SpecEdit) ----

\* The content fields of a row differ.
ContentDiffers(a, b) ==
    \/ a.rating # b.rating \/ a.content # b.content
    \/ a.images # b.images \/ a.tags # b.tags

\* C17: rating, content, images and tags of a review change only by a PUT
\* of the authenticated user who is the review's author; a PUT or DELETE by
\* any other authenticated user on an existing review is answered 403 and
\* changes nothing; a review without userId is never edited or deleted.
C17_OwnerOnlyEdit ==
    [][ /\ \A i \in DOMAIN reviews :
              (\E j \in DOMAIN reviews' :
                    /\ reviews'[j].id = reviews[i].id
                    /\ ContentDiffers(reviews'[j], reviews[i]))
              => /\ resp'.kind = "edit" /\ resp'.status = 200
                 /\ resp'.id = reviews[i].id
                 /\ reviews[i].userId # NoUser
                 /\ resp'.viewer = reviews[i].userId
        /\ \A i \in DOMAIN reviews :
              (/\ resp'.kind \in {"edit", "delete"}
               /\ resp'.id = reviews[i].id
               /\ resp'.viewer # reviews[i].userId)
              => (resp'.status = 403 /\ reviews' = reviews)
        /\ \A i \in DOMAIN reviews :
              reviews[i].userId = NoUser =>
                  \E j \in DOMAIN reviews' : reviews'[j] = reviews[i]
      ]_vars

\* The author of review 1 has edited its rating and content: PUT answered 200.
C17_Witness ==
    /\ resp.kind = "edit" /\ resp.status = 200 /\ resp.id = 1
    /\ HasReview(1)
    /\ ReviewAt(1).userId = resp.viewer
    /\ ReviewAt(1).rating = 4
    /\ ReviewAt(1).content = Edited.content

\* C18: every stored review has an integer rating in 1..5, after any
\* sequence of create and edit requests.
C18_RatingInRange ==
    \A i \in DOMAIN reviews : reviews[i].rating \in 1..5

C21_LengthAndOrder ==
    resp.kind = "list" =>
        /\ Len(resp.data) = Len(resp.pageIds)
        /\ \A i \in DOMAIN resp.pageIds : resp.data[i].id = resp.pageIds[i]
        /\ resp.isUnlocked \in BOOLEAN
        /\ resp.pageIds = <<>> => resp.data = <<>>

\* A locked page of three rows in rating order came back whole and in order.
C21_Witness ==
    /\ resp.kind = "list" /\ ~resp.isUnlocked
    /\ resp.sortBy = "rating_low"
    /\ Len(resp.pageIds) = 3
    /\ Len(resp.data) = 3
    /\ resp.data[3].isBlinded
    /\ resp.data[1].id > resp.data[3].id


\* C22: POST /unlock by user u for store s changes the ledger at most by
\* adding the row (u, s): the unlock state of every other (user, store) pair
\* stays as it was; a request for a missing store is answered 404 and leaves
\* the ledger as it was.
C22_UnlockFrame ==
    [][ /\ ledger' # ledger =>
              /\ resp'.kind = "unlock"
              /\ Len(ledger') = Len(ledger) + 1
              /\ SubSeq(ledger', 1, Len(ledger)) = ledger
              /\ ledger'[Len(ledger')].userId = resp'.viewer
              /\ ledger'[Len(ledger')].storeId = resp'.storeId
        /\ \A u \in Users, s \in StoreIds :
              (resp'.kind # "unlock" \/ u # resp'.viewer \/ s # resp'.storeId)
                  => (HasUnlock(ledger', u, s) <=> HasUnlock(ledger, u, s))
        /\ (resp'.kind = "unlock" /\ resp'.storeId \notin Stores)
              => (resp'.status = 404 /\ ledger' = ledger)
      ]_vars

\* A second user has unlocked the store: the first user's row is still there
\* and the new row is the requester's.
C22_Witness ==
    /\ resp.kind = "unlock" /\ resp.status = 200 /\ ~resp.existed
    /\ Len(ledger) = 2
    /\ ledger[2].userId = resp.viewer /\ ledger[2].storeId = resp.storeId
    /\ ledger[1].userId # resp.viewer


\* ---- Store reports (SpecReport, SpecReportPost) ----

\* C23: no report whose status is approved or rejected is modified or deleted
\* by PUT /:id or DELETE /:id, under any interleaving with the admin's
\* status changes; such a request is answered 400 with the report unchanged.
C23_PendingOnly ==
    [][ \A i \in DOMAIN reports :
            (/\ reports[i].status # "pending"
             /\ resp'.kind \in {"report-put", "report-delete"}
             /\ resp'.id = reports[i].id
             /\ resp'.viewer = reports[i].userId)
            => /\ resp'.status = 400
               /\ reports' = reports
      ]_vars


\* C24: no user has two reports that are not rejected with the same stored
\* storeName and address.
C24_NoDuplicateReports ==
    \A i, j \in DOMAIN reports :
        (/\ i < j
         /\ reports[i].userId = reports[j].userId
         /\ reports[i].status # "rejected"
         /\ reports[j].status # "rejected")
        => ~(/\ reports[i].storeName = reports[j].storeName
             /\ reports[i].address = reports[j].address)


\* ---- Payments (SpecPay) ----

\* C25: a completed payment stays completed: no step changes its status,
\* and POST /execute on it answers success without a Toss call.
C25_CompletedIsFinal ==
    [][ \A i \in DOMAIN payments :
            payments[i].status = "completed" =>
                /\ payments'[i].status = "completed"
                /\ (resp'.kind = "pay-execute" /\ resp'.id = payments[i].id
                    /\ resp'.viewer = payments[i].userKey)
                   => (resp'.status = 200 /\ tossCalls' = tossCalls)
      ]_vars

\* C26: only the payer executes or reads a payment: a request by another
\* userKey is answered 403 without payment data, the Toss API is called and
\* the Payment table written only on behalf of the payment's own userKey.
C26_PayerOnly ==
    [][ /\ (/\ resp'.kind \in {"pay-execute", "pay-get"}
            /\ HasPayment(resp'.id)
            /\ PaymentAt(resp'.id).userKey # resp'.viewer)
           => /\ resp'.status = 403
              /\ resp'.data = <<>>
              /\ payments' = payments
              /\ tossCalls' = tossCalls
        /\ (tossCalls' # tossCalls \/ payments' # payments)
           => \E c \in Conns :
                /\ payReq[c].pc # "idle"
                /\ payReq'[c] # payReq[c]
                /\ payReq[c].userKey = PaymentAt(payReq[c].id).userKey
                /\ \A i \in DOMAIN payments :
                      payments'[i] # payments[i] => payments[i].id = payReq[c].id
      ]_vars

\* C26 witness: user 2 asked to execute payment 1 of user 1, which is still
\* waiting to be executed, and was refused.
C26_Witness ==
    /\ resp.kind = "pay-execute"
    /\ resp.status = 403
    /\ resp.id = 1
    /\ resp.viewer = 2
    /\ PaymentAt(1).userKey = 1
    /\ PaymentAt(1).status = "created"
    /\ tossCalls = 0


\* ---- Favorites (SpecFav) ----

\* C27: there is never more than one favorite for a (userId, storeId) pair;
\* a POST for a pair that was a favorite when the request arrived is answered
\* 409 and leaves the favorites unchanged; the favorites change only by one
\* row appended for the requester, answered 201.
C27_OneFavoritePerStore ==
    /\ [](\A i, j \in DOMAIN favorites :
            (favorites[i].userId = favorites[j].userId
             /\ favorites[i].storeId = favorites[j].storeId) => i = j)
    /\ [][ /\ \A c \in Conns :
               (favReq[c].pc # "idle" /\ favReq[c].favorited /\ favReq'[c] # favReq[c])
               => /\ favReq'[c] = IdleFav
                  /\ resp' = [Response("fav-post", 409, favReq[c].userId,
                                       favReq[c].storeId) EXCEPT !.existed = TRUE]
                  /\ favorites' = favorites
           /\ (resp'.kind = "fav-post" /\ resp'.status = 409)
              => /\ favorites' = favorites
                 /\ HasFavorite(favorites, resp'.viewer, resp'.storeId)
           /\ favorites' # favorites
              => /\ resp'.kind = "fav-post" /\ resp'.status = 201
                 /\ favorites' = Append(favorites, [userId |-> resp'.viewer,
                                                    storeId |-> resp'.storeId])
          ]_vars

\* C27 witness: both users hold store 1 as a favorite, and the user who
\* asked again was answered 409.
C27_Witness ==
    /\ Len(favorites) = NumUsers
    /\ resp.kind = "fav-post"
    /\ resp.status = 409
    /\ HasFavorite(favorites, resp.viewer, resp.storeId)
    /\ \E c \in Conns : favReq[c].pc = "create"


\* ---- Open alerts (SpecAlert) ----

\* C28: at most one OpenAlert row per userId under any interleaving of
\* POST / requests, and a request that finds the user's row is answered 409
\* and creates nothing.
C28_OneAlertPerUser ==
    /\ [](\A i, j \in DOMAIN alerts : alerts[i].userId = alerts[j].userId => i = j)
    /\ [][ /\ (resp'.kind = "alert-post" /\ resp'.status = 409)
              => (alerts' = alerts /\ HasAlert(alerts, resp'.viewer))
           /\ \A c \in Conns, u \in Users :
                (alertReq[c].pc = "idle" /\ alertReq'[c].pc = "create"
                 /\ alertReq'[c].userId = u) => ~HasAlert(alerts, u)
         ]_vars


\* ---- The cron endpoint (SpecCron) ----

====
